---- MODULE Spec2Model ----
(***************************************************************************)
(* Request dispatch and request tracking of the WPCOM HTTP data layer      *)
(* (state/data-layer/wpcom-http/utils): getActionKey, getRequestStatus,    *)
(* trackRequests, requestMetaGetter, dispatchRequest, dispatchRequestEx,   *)
(* makeParser.                                                             *)
(*                                                                         *)
(* Spec        the default wiring: dispatchRequest( initiator, onSuccess,  *)
(*             onError ) wrapped by trackRequests( requestsMeta,           *)
(*             requestsIds ), called with caller-built action objects.     *)
(* SpecRouter  the two routers on their own: dispatchRequest with a        *)
(*             pass-through middleware and dispatchRequestEx.              *)
(* SpecParser  a parser built by makeParser, applied to payloads.          *)
(***************************************************************************)
EXTENDS Naturals, Sequences, FiniteSets

VARIABLES
    requests,     \* requestsMeta: Map fingerprint -> { requestId, status, lastUpdated? }
    requestIds,   \* requestsIds: Map requestId -> fingerprint
    uid,          \* lodash's uniqueId counter
    now,          \* the value Date.now() returns
    cur,          \* the action object the caller holds (as the last call left it)
    arg,          \* the value of that object when the last call began
    replayed,     \* whether the last call was given an object already processed before
    fwd,          \* what the last call handed to next: <<>> or <<action>>
    seen,         \* requestMetaGetter( requests )( action ) as next saw it: <<>> or <<meta>>
    log,          \* what the router did in the last call
    ncalls,       \* calls made so far
    opts,         \* SpecRouter: the handlers the routers were built with
    built,        \* SpecRouter: warnings reported while building dispatchRequestEx
    act,          \* SpecRouter: the action being routed
    logA,         \* SpecRouter: what dispatchRequest's function did with act
    logB,         \* SpecRouter: what dispatchRequestEx's function did with act
    parserOf,     \* SpecParser: the transformer makeParser was given: <<>> or <<t>>
    parsed        \* SpecParser: the last payload parsed and what the parser did with it

vars == << requests, requestIds, uid, now, cur, arg, replayed, fwd, seen,
           log, ncalls, opts, built, act, logA, logB, parserOf, parsed >>

ledgerVars == << requests, requestIds, uid, now, cur, arg, replayed, fwd,
                 seen, log, ncalls >>

routerVars == << opts, built, act, logA, logB >>

parserVars == << parserOf, parsed >>

-----------------------------------------------------------------------------
(* Bounds of the model *)

\* calls of uniqueId
MaxMint == 2
\* largest value of Date.now()
MaxClock == 2
\* calls of the wrapped router
MaxCalls == 3

-----------------------------------------------------------------------------
(* JavaScript values *)

Undefined == "undefined"

\* a value that is present (not undefined) and falsy: null, 0, '', false
Falsy == { "0" }

Truthy(v) == v # Undefined /\ v \notin Falsy

\* undefined !== v
undefinedNot(v) == v # Undefined

\* an empty object literal {}
EmptyObject == [ k \in {} |-> Undefined ]

\* Object.assign( {}, a, b ): the properties of b win
Assign(a, b) ==
    [ k \in (DOMAIN a) \cup (DOMAIN b) |-> IF k \in DOMAIN b THEN b[k] ELSE a[k] ]

\* Map.prototype.get, undefined shown as the empty sequence
MapGet(m, k) == IF k \in DOMAIN m THEN << m[k] >> ELSE << >>

\* Map.prototype.set
MapSet(m, k, v) == [ j \in (DOMAIN m) \cup { k } |-> IF j = k THEN v ELSE m[j] ]

EmptyMap == [ k \in {} |-> Undefined ]

-----------------------------------------------------------------------------
(* Actions *)

\* property names in the order Array.prototype.sort gives them
KeyOrder == << "type", "x" >>

KeyRank(k) == CHOOSE i \in DOMAIN KeyOrder : KeyOrder[i] = k

\* action bodies: the properties other than meta, in insertion order
Bodies ==
    { << << "type", "A" >>, << "x", "1" >> >>,
      << << "x", "1" >>, << "type", "A" >> >>,
      << << "type", "A" >> >>,
      << << "type", "A" >>, << "x", Undefined >> >> }

\* no requestId in meta.dataLayer
NoRequestId == << >>

\* what uniqueId( 'data-request-' ) returns on its n-th call
DataRequestId(n) == << "data-request-", n >>

RequestIdsUpTo(n) == { DataRequestId(i) : i \in 1..n }

ErrorValues == { Undefined, "0", "E" }
DataValues == { Undefined, "0", "D" }
ProgressValues == { Undefined, "0", "P" }

Envelope(e, d, p) == [ error |-> e, data |-> d, progress |-> p ]

\* the metadata envelopes of the actions that reach the wrapped router
Envelopes ==
    { Envelope(Undefined, Undefined, Undefined),
      Envelope(Undefined, "D", Undefined),
      Envelope("E", Undefined, Undefined),
      Envelope("E", "D", Undefined),
      Envelope(Undefined, "0", Undefined),
      Envelope("0", "D", Undefined),
      Envelope(Undefined, Undefined, "P"),
      Envelope(Undefined, "D", "P"),
      Envelope("E", Undefined, "P"),
      Envelope(Undefined, Undefined, "0") }

MakeAction(b, m, id) ==
    [ body |-> b, error |-> m.error, data |-> m.data, progress |-> m.progress,
      requestId |-> id ]

\* the action objects a caller can build once n ids have been minted: a carried
\* request id is one that an earlier call stamped
ActionsUpTo(n) ==
    { MakeAction(b, m, id) :
        b \in Bodies, m \in Envelopes, id \in { NoRequestId } \cup RequestIdsUpTo(n) }

getData(action) == action.data

getError(action) == action.error

getProgress(action) == action.progress

getRequestId(action) == action.requestId

-----------------------------------------------------------------------------
(* getRequestStatus, getActionKey *)

getRequestStatus(action) ==
    IF Truthy(getError(action)) THEN "failure"
    ELSE IF Truthy(getData(action)) THEN "success"
    ELSE "pending"

\* json-stable-stringify: properties whose value is undefined are left out,
\* the others are written in the order of their sorted keys
deterministicStringify(body) ==
    LET kept == { body[i] : i \in { j \in DOMAIN body : body[j][2] # Undefined } }
    IN  [ n \in 1..Cardinality(kept) |->
            CHOOSE p \in kept :
                Cardinality({ q \in kept : KeyRank(q[1]) < KeyRank(p[1]) }) = n - 1 ]

\* as getActionKey, without taking meta out of the action
getActionKeyWithMeta(fullAction) ==
    deterministicStringify(fullAction.body)
        \o << << "meta", fullAction.error, fullAction.data, fullAction.progress,
                 fullAction.requestId >> >>

getActionKey(fullAction) == deterministicStringify(fullAction.body)

requestMetaGetter(reqs, action) == MapGet(reqs, getActionKey(action))

-----------------------------------------------------------------------------
(* Handlers: the functions a router is built with *)

\* what a caller-supplied function does when called; "missing": not supplied
Behaviours == { "missing", "action", "nothing", "throws" }

FromApiBehaviours == { "missing", "maps", "throws" }

Options ==
    [ fetch : Behaviours, onSuccess : Behaviours, onError : Behaviours,
      onProgress : Behaviours, fromApi : FromApiBehaviours ]

Invocation(h, x) == [ handler |-> h, with |-> x ]

\* the exception a throwing function throws
ExceptionOf(h) ==
    CASE h = "fromApi" -> "thrown by fromApi"
      [] h = "onSuccess" -> "thrown by onSuccess"
      [] h = "onError" -> "thrown by onError"
      [] h = "onProgress" -> "thrown by onProgress"
      [] OTHER -> "thrown by fetch"

NoException == "none"

\* the value a handler returns: the action it creates, or undefined
ReturnOf(behaviour, h) ==
    IF behaviour = "action" THEN << "action created by", h >> ELSE << >>

\* fromApi( data ) when it returns; identity when not supplied
fromApi(o, data) ==
    IF o.fromApi = "missing" THEN data
    ELSE IF data = "D" THEN "fromApi(D)" ELSE "fromApi(0)"

\* one call of a handler slot: the invocations made, what was thrown, what came back
Outcome(inv, threw, value) == [ invoked |-> inv, threw |-> threw, value |-> value ]

\* a call of handler h with x; a handler that was not supplied is lodash's noop
CallHandler(o, h, x) ==
    IF o[h] = "throws"
    THEN Outcome(<< Invocation(h, x) >>, ExceptionOf(h), << >>)
    ELSE Outcome(<< Invocation(h, x) >>, NoException, ReturnOf(o[h], h))

\* as TryOnSuccess, without the try and catch around the call
TryOnSuccessUncaught(o, data) ==
    IF o.fromApi = "throws"
    THEN Outcome(<< >>, ExceptionOf("fromApi"), << >>)
    ELSE CallHandler(o, "onSuccess", fromApi(o, data))

\* try { return onSuccess( ..., fromApi( data ) ) } catch ( err ) { return onError( ..., err ) }
TryOnSuccess(o, data) ==
    IF o.fromApi = "throws"
    THEN CallHandler(o, "onError", ExceptionOf("fromApi"))
    ELSE LET s == CallHandler(o, "onSuccess", fromApi(o, data))
         IN  IF s.threw = NoException THEN s
             ELSE LET e == CallHandler(o, "onError", s.threw)
                  IN  Outcome(s.invoked \o e.invoked, e.threw, e.value)

-----------------------------------------------------------------------------
(* dispatchRequest: the function handed to the middleware *)

RouterLog(branch, out, dispatched, returned, warned) ==
    [ branch |-> branch, invoked |-> out.invoked, threw |-> out.threw,
      dispatched |-> dispatched, returned |-> returned, warned |-> warned ]

\* dispatchRequest takes initiator, onSuccess and onError as functions; of its
\* options, onProgress and fromApi have defaults
RequiredA(o) == o.fetch # "missing" /\ o.onSuccess # "missing" /\ o.onError # "missing"

dispatchRequestNext(o, action) ==
    LET error == getError(action)
        data == getData(action)
        progress == getProgress(action)
        branch == IF undefinedNot(error) THEN "error"
                  ELSE IF undefinedNot(data) THEN "data"
                  ELSE IF undefinedNot(progress) THEN "progress"
                  ELSE "initiate"
        out == CASE branch = "error" -> CallHandler(o, "onError", error)
                 [] branch = "data" -> TryOnSuccess(o, data)
                 [] branch = "progress" ->
                        CallHandler(o, "onProgress", progress)
                 [] OTHER -> CallHandler(o, "fetch", Undefined)
    IN  RouterLog(branch, out, << >>, out.value, << >>)

-----------------------------------------------------------------------------
(* trackRequests *)

\* uniqueId( 'data-request-' ): ++idCounter, and the id made of it
uniqueId(counter) == [ id |-> DataRequestId(counter + 1), counter |-> counter + 1 ]

\* what merge( action, { meta: { dataLayer: { requestId } } } ) returns
merge(action, requestId) == [ action EXCEPT !.requestId = requestId ]

\* as mergedInto, for a merge into a new object: merge( {}, action, ... )
mergedIntoCopy(action, requestId) == action

\* what that call leaves in the object it was given: lodash's merge assigns into
\* its first argument and returns it
mergedInto(action, requestId) == merge(action, requestId)

\* as isProgressEvent, for a trackRequests without its early return
isProgressEventNever(action) == FALSE

\* whether trackRequests leaves the action to next untouched
isProgressEvent(action) == Truthy(getProgress(action))

\* as resolveRequestId, ignoring the id the action carries
resolveRequestIdAlwaysMint(action, counter) == uniqueId(counter)

\* get( action, 'meta.dataLayer.requestId' ) || uniqueId( 'data-request-' )
resolveRequestId(action, counter) ==
    IF getRequestId(action) # NoRequestId
    THEN [ id |-> getRequestId(action), counter |-> counter ]
    ELSE uniqueId(counter)

\* as buildNextMeta, stamping lastUpdated whatever the status
buildNextMetaAlwaysStamped(meta, requestId, status, clock) ==
    Assign(Assign(meta, [ requestId |-> requestId, status |-> status ]),
           [ lastUpdated |-> clock ])

\* Object.assign( {}, meta, { requestId, status }, status !== 'pending' && { lastUpdated } )
buildNextMeta(meta, requestId, status, clock) ==
    Assign(Assign(meta, [ requestId |-> requestId, status |-> status ]),
           IF status # "pending" THEN [ lastUpdated |-> clock ] ELSE EmptyObject)

\* as updateMaps, for a tracker that rewrites every entry holding the request id
updateMapsByRequestId(reqs, ids, actionKey, status, requestId, nextMeta) ==
    LET written == MapSet(reqs, actionKey, nextMeta)
    IN  IF "pending" = status
        THEN [ requests |-> written, requestIds |-> MapSet(ids, requestId, actionKey) ]
        ELSE [ requests |-> [ k \in DOMAIN written |->
                                IF written[k].requestId = requestId
                                THEN nextMeta ELSE written[k] ],
               requestIds |-> ids ]

\* as updateMaps, for a tracker that drops the index entry of an answered request
updateMapsEvicting(reqs, ids, actionKey, status, requestId, nextMeta) ==
    LET written == MapSet(reqs, actionKey, nextMeta)
        firstKey == MapGet(ids, requestId)
        evicted == [ k \in DOMAIN ids \ { requestId } |-> ids[k] ]
    IN  IF "pending" = status
        THEN [ requests |-> written, requestIds |-> MapSet(ids, requestId, actionKey) ]
        ELSE IF firstKey # << >> /\ firstKey[1] # actionKey
             THEN [ requests |-> MapSet(written, firstKey[1], nextMeta),
                    requestIds |-> evicted ]
             ELSE [ requests |-> written, requestIds |-> evicted ]

\* the writes to the two maps
updateMaps(reqs, ids, actionKey, status, requestId, nextMeta) ==
    LET written == MapSet(reqs, actionKey, nextMeta)
        firstKey == MapGet(ids, requestId)
    IN  IF "pending" = status
        THEN [ requests |-> written, requestIds |-> MapSet(ids, requestId, actionKey) ]
        ELSE IF firstKey # << >> /\ firstKey[1] # actionKey
             THEN [ requests |-> MapSet(written, firstKey[1], nextMeta), requestIds |-> ids ]
             ELSE [ requests |-> written, requestIds |-> ids ]

\* as requestsAtNext, for a tracker that calls next before it writes
requestsAtNextBeforeWrites(before, after) == before

\* the requests map as next finds it: next is called last, after the writes
requestsAtNext(before, after) == after

\* one call of trackRequests( requests, requestIds )( next )( store, action ),
\* next being the function of dispatchRequest built with the handlers o
trackRequests(reqs, ids, counter, clock, o, action) ==
    IF isProgressEvent(action)
    THEN [ requests |-> reqs, requestIds |-> ids, uid |-> counter,
           action |-> action, forwarded |-> action,
           seen |-> requestMetaGetter(reqs, action),
           log |-> dispatchRequestNext(o, action) ]
    ELSE LET actionKey == getActionKey(action)
             status == getRequestStatus(action)
             found == MapGet(reqs, actionKey)
             meta == IF found # << >> THEN found[1] ELSE EmptyObject
             resolved == resolveRequestId(action, counter)
             requestId == resolved.id
             nextMeta == buildNextMeta(meta, requestId, status, clock)
             maps == updateMaps(reqs, ids, actionKey, status, requestId, nextMeta)
             merged == merge(action, requestId)
         IN  [ requests |-> maps.requests, requestIds |-> maps.requestIds,
               uid |-> resolved.counter,
               action |-> mergedInto(action, requestId), forwarded |-> merged,
               seen |-> requestMetaGetter(requestsAtNext(reqs, maps.requests), merged),
               log |-> dispatchRequestNext(o, merged) ]

\* getRequestMeta = requestMetaGetter( requestsMeta )
getRequestMeta(action) == requestMetaGetter(requests, action)

-----------------------------------------------------------------------------
(* dispatchRequestEx *)

WarnNoFetch == "fetch handler is not defined: no request will ever be issued"
WarnNoOnSuccess == "onSuccess handler is not defined: response to the request is being ignored"
WarnNoOnError == "onError handler is not defined: error during the request is being ignored"
WarnNoAction == "The `fetch` handler didn't return any action: no request will be issued"

\* the warnings of dispatchRequestEx( options ) itself
dispatchRequestEx(o) ==
    (IF o.fetch = "missing" THEN << WarnNoFetch >> ELSE << >>)
    \o (IF o.onSuccess = "missing" THEN << WarnNoOnSuccess >> ELSE << >>)
    \o (IF o.onError = "missing" THEN << WarnNoOnError >> ELSE << >>)

createRequestAction(o, action) ==
    LET error == getError(action)
        data == getData(action)
        progress == getProgress(action)
        branch == IF Truthy(error) THEN "error"
                  ELSE IF Truthy(data) THEN "data"
                  ELSE IF Truthy(progress) THEN "progress"
                  ELSE "initiate"
        out == CASE branch = "error" -> CallHandler(o, "onError", error)
                 [] branch = "data" -> TryOnSuccess(o, data)
                 [] branch = "progress" ->
                        CallHandler(o, "onProgress", progress)
                 [] OTHER -> CallHandler(o, "fetch", Undefined)
        warned == IF branch = "initiate" /\ out.threw = NoException /\ out.value = << >>
                  THEN << WarnNoAction >> ELSE << >>
    IN  RouterLog(branch, out, << >>, out.value, warned)

\* store.dispatch( requestAction )
storeDispatch(requestAction) == << "result of dispatching", requestAction >>

\* as dispatchRequestExCall, dispatching whatever createRequestAction returned
dispatchRequestExUnguarded(o, action) ==
    LET made == createRequestAction(o, action)
        requestAction == made.returned
    IN  IF made.threw # NoException THEN made
        ELSE [ made EXCEPT !.dispatched = << requestAction >>,
                           !.returned = storeDispatch(requestAction) ]

\* the function dispatchRequestEx returns, called with ( store, action )
dispatchRequestExCall(o, action) ==
    LET made == createRequestAction(o, action)
        requestAction == made.returned
    IN  IF made.threw # NoException THEN made
        ELSE IF requestAction # << >>
        THEN [ made EXCEPT !.dispatched = << requestAction >>,
                           !.returned = storeDispatch(requestAction) ]
        ELSE [ made EXCEPT !.returned = << >> ]

-----------------------------------------------------------------------------
(* makeParser *)

\* the top-level properties a payload may have, and their values: a number, a string
PayloadKeys == { "id", "name", "extra" }

PayloadValues == { "1", "x" }

TypeOf(v) == IF v = "1" THEN "number" ELSE "string"

\* the payloads given to a parser: objects with some of the properties
Payloads == UNION { [ S -> PayloadValues ] : S \in SUBSET PayloadKeys }

\* the schema the parser is made for: { type: 'object', required: [ 'id' ],
\* properties: { id: { type: 'number' }, name: { type: 'string' } } }
SchemaProperties == << << "id", "number" >>, << "name", "string" >> >>

SchemaRequired == { "id" }

\* validator.errors after validator( data ): one entry for each violation, in the
\* order of the schema's properties; empty when validator( data ) is true
validatorErrors(data) ==
    LET errorAt(i) ==
            LET field == SchemaProperties[i][1]
            IN  IF field \notin DOMAIN data
                THEN IF field \in SchemaRequired
                     THEN << [ field |-> field, message |-> "is required" ] >>
                     ELSE << >>
                ELSE IF TypeOf(data[field]) # SchemaProperties[i][2]
                     THEN << [ field |-> field, message |-> "is the wrong type" ] >>
                     ELSE << >>
    IN  errorAt(1) \o errorAt(2)

\* schemaValidator.filter( { ...schema, additionalProperties: false } )( data )
filter(data) ==
    LET declared == { SchemaProperties[i][1] : i \in DOMAIN SchemaProperties }
    IN  [ k \in DOMAIN data \cap declared |-> data[k] ]

\* new SchemaError( errors )
SchemaError(errors) ==
    [ name |-> "SchemaError", message |-> "Failed to validate with JSON schema",
      schemaErrors |-> errors ]

\* what a transformer does: "identity" is the default of makeParser
Transformers == { "identity", "maps", "throwsError", "throwsNull" }

\* the values a transformer throws: an Error object, or null
ThrownError == "RangeError: bad"

ThrownNull == "null"

ThrownBy(transformer) == IF transformer = "throwsNull" THEN ThrownNull ELSE ThrownError

\* error.message, for the Error object a transformer throws
MessageOf(error) == "bad"

\* new TransformerError( error, data, transformer ): super( error.message )
TransformerError(error, data, transformer) ==
    [ name |-> "TransformerError", message |-> MessageOf(error),
      inputData |-> data, transformer |-> transformer ]

\* what reading error.message of null inside the catch block throws
TypeErrorOfNull ==
    [ name |-> "TypeError", message |-> "Cannot read property 'message' of null" ]

\* the outcome of a function of the parser: the functions called so far, and the
\* value returned (<<v>>) or the exception thrown (<<e>>)
ParserOutcome(steps, threw, value) == [ steps |-> steps, threw |-> threw, value |-> value ]

\* as validate, for a parser that filters whatever the validator says
validateUnchecked(data) ==
    ParserOutcome(<< "validator", "filter" >>, << >>, << filter(data) >>)

\* validate: throws SchemaError( validator.errors ) or returns filter( data )
validate(data) ==
    IF validatorErrors(data) # << >>
    THEN ParserOutcome(<< "validator" >>, << SchemaError(validatorErrors(data)) >>, << >>)
    ELSE ParserOutcome(<< "validator", "filter" >>, << >>, << filter(data) >>)

\* transform: calls the transformer and wraps what it throws
transform(transformer, data) ==
    CASE transformer = "identity" ->
            ParserOutcome(<< "transformer" >>, << >>, << data >>)
      [] transformer = "maps" ->
            ParserOutcome(<< "transformer" >>, << >>,
                          << [ k \in DOMAIN data |-> << "mapped", data[k] >> ] >>)
      [] transformer = "throwsError" ->
            ParserOutcome(<< "transformer" >>,
                          << TransformerError(ThrownBy(transformer), data, transformer) >>,
                          << >>)
      [] OTHER ->
            ParserOutcome(<< "transformer" >>, << TypeErrorOfNull >>, << >>)

\* the parser makeParser returns: data => transform( validate( data ) )
makeParser(transformer, data) ==
    LET validated == validate(data)
    IN  IF validated.threw # << >>
        THEN validated
        ELSE LET transformed == transform(transformer, validated.value[1])
             IN  ParserOutcome(validated.steps \o transformed.steps,
                               transformed.threw, transformed.value)

-----------------------------------------------------------------------------
(* The default wiring *)

\* the handlers the wrapped router is built with
WiredOptions ==
    { o \in Options : /\ o.fetch = "action"
                      /\ o.onError = "action"
                      /\ o.onProgress = "missing"
                      /\ o.onSuccess = "action"
                      /\ o.fromApi = "missing" }

NoLog == << >>

InitLedger ==
    /\ requests = EmptyMap
    /\ requestIds = EmptyMap
    /\ uid = 0
    /\ now = 1
    /\ cur = << >>
    /\ arg = << >>
    /\ replayed = FALSE
    /\ fwd = << >>
    /\ seen = << >>
    /\ log = NoLog
    /\ ncalls = 0

InitRouter ==
    /\ opts = << >>
    /\ built = << >>
    /\ act = << >>
    /\ logA = NoLog
    /\ logB = NoLog

InitParser ==
    /\ parserOf = << >>
    /\ parsed = << >>

Init == InitLedger /\ InitRouter /\ InitParser

\* one call of the wrapped router with the action object a
Call(o, a, again) ==
    /\ ncalls < MaxCalls
    /\ \E r \in { trackRequests(requests, requestIds, uid, now, o, a) } :
        /\ r.uid <= MaxMint
        /\ requests' = r.requests
        /\ requestIds' = r.requestIds
        /\ uid' = r.uid
        /\ cur' = << r.action >>
        /\ arg' = << a >>
        /\ replayed' = again
        /\ fwd' = << r.forwarded >>
        /\ seen' = << r.seen >>
        /\ log' = << r.log >>
        /\ ncalls' = ncalls + 1
        /\ UNCHANGED now

\* the caller builds a new action object and dispatches it
Submit ==
    /\ \E o \in WiredOptions : \E a \in ActionsUpTo(uid) : Call(o, a, FALSE)
    /\ UNCHANGED routerVars
    /\ UNCHANGED parserVars

\* the caller dispatches the object it holds once more
Resubmit ==
    /\ cur # << >>
    /\ \E o \in WiredOptions : Call(o, cur[1], TRUE)
    /\ UNCHANGED routerVars
    /\ UNCHANGED parserVars

\* time passes
Tick ==
    /\ now < MaxClock
    /\ now' = now + 1
    /\ UNCHANGED << requests, requestIds, uid, cur, arg, replayed, fwd, seen,
                    log, ncalls >>
    /\ UNCHANGED routerVars
    /\ UNCHANGED parserVars

Next == Submit \/ Resubmit \/ Tick

Spec == Init /\ [][Next]_vars

-----------------------------------------------------------------------------
(* The routers on their own *)

\* the actions routed: only the metadata envelope matters to a router
RoutedActions ==
    [ body : { << << "type", "A" >> >> }, error : ErrorValues, data : DataValues,
      progress : ProgressValues, requestId : { NoRequestId } ]

\* dispatchRequest( ..., { middleware: next => next } ) and dispatchRequestEx( o )
Build ==
    /\ opts = << >>
    /\ \E o \in Options :
          /\ opts' = << o >>
          /\ built' = dispatchRequestEx(o)
    /\ act' = << >>
    /\ logA' = NoLog
    /\ logB' = NoLog
    /\ UNCHANGED ledgerVars
    /\ UNCHANGED parserVars

\* an action reaches the routers
Receive ==
    /\ opts # << >>
    /\ \E a \in RoutedActions : act' = << a >>
    /\ logA' = NoLog
    /\ logB' = NoLog
    /\ UNCHANGED << opts, built >>
    /\ UNCHANGED ledgerVars
    /\ UNCHANGED parserVars

RouteA ==
    /\ act # << >>
    /\ RequiredA(opts[1])
    /\ logA' = << dispatchRequestNext(opts[1], act[1]) >>
    /\ UNCHANGED << opts, built, act, logB >>
    /\ UNCHANGED ledgerVars
    /\ UNCHANGED parserVars

RouteB ==
    /\ act # << >>
    /\ logB' = << dispatchRequestExCall(opts[1], act[1]) >>
    /\ UNCHANGED << opts, built, act, logA >>
    /\ UNCHANGED ledgerVars
    /\ UNCHANGED parserVars

NextRouter == Build \/ Receive \/ RouteA \/ RouteB

SpecRouter == Init /\ [][NextRouter]_vars

-----------------------------------------------------------------------------
(* A parser on its own *)

\* makeParser( schema, {}, transformer )
MakeParserCall ==
    /\ parserOf = << >>
    /\ \E t \in Transformers : parserOf' = << t >>
    /\ UNCHANGED parsed
    /\ UNCHANGED ledgerVars
    /\ UNCHANGED routerVars

\* the parser is given a payload
Parse ==
    /\ parserOf # << >>
    /\ \E d \in Payloads :
          parsed' = << [ payload |-> d, result |-> makeParser(parserOf[1], d) ] >>
    /\ UNCHANGED parserOf
    /\ UNCHANGED ledgerVars
    /\ UNCHANGED routerVars

NextParser == MakeParserCall \/ Parse

SpecParser == Init /\ [][NextParser]_vars

-----------------------------------------------------------------------------
(* Vocabulary of the properties *)

\* a field of the metadata envelope is present when it is not undefined
Present(v) == v # Undefined

\* an action that carries error or data
IsTerminal(a) == Present(getError(a)) \/ Present(getData(a))

\* the status a terminal action stands for: failure with an error, else success
TerminalStatus(a) == IF Present(getError(a)) THEN "failure" ELSE "success"

\* an action that carries nothing in its envelope but, perhaps, a request id
IsPlainRequest(a) ==
    ~Present(getError(a)) /\ ~Present(getData(a)) /\ ~Present(getProgress(a))

\* a step that is one call of the wrapped router
CallStep == ncalls' = ncalls + 1

\* the ledger reqs holds under fingerprint k an entry with this status and request id
Reports(reqs, k, status, id) ==
    /\ k \in DOMAIN reqs
    /\ reqs[k].status = status
    /\ reqs[k].requestId = id

-----------------------------------------------------------------------------
(* C1 *)

\* C1: when one call processes a pending action with fingerprint F1 that resolves
\* to request id R, and the next call processes a terminal action (error or data
\* present) with fingerprint F2 # F1 that carries R, then afterwards the ledger
\* reports the terminal status and request id R under F1 and under F2.  (The
\* claim's "later" covers this case of two consecutive calls.)
C1_CrossReference ==
    [][ (CallStep /\ cur # << >>) =>
            LET p == arg[1]
                R == cur[1].requestId
                a == arg'[1]
                F1 == getActionKey(p)
                F2 == getActionKey(a)
            IN  ( /\ IsPlainRequest(p)
                  /\ IsTerminal(a)
                  /\ F2 # F1
                  /\ getRequestId(a) = R )
                => /\ Reports(requests', F1, TerminalStatus(a), R)
                   /\ Reports(requests', F2, TerminalStatus(a), R) ]_vars

-----------------------------------------------------------------------------
(* C2 *)

\* C2: after a call that processed an action carrying error or data, the ledger
\* holds under the action's fingerprint an entry whose status is failure (error
\* present) or success (only data present), and when the index maps the action's
\* request id to another fingerprint, the entry under that fingerprint has the same
\* status; whatever else the envelope contains.
C2_TerminalReflected ==
    cur # << >> =>
        LET a == arg[1]
            K == getActionKey(a)
            R == cur[1].requestId
        IN  IsTerminal(a) =>
                /\ K \in DOMAIN requests
                /\ requests[K].status = TerminalStatus(a)
                /\ (R \in DOMAIN requestIds /\ requestIds[R] # K)
                      => requests[requestIds[R]].status = TerminalStatus(a)

-----------------------------------------------------------------------------
(* C3 *)

\* the handler that precedence chooses for an action: error, else data, else
\* progress, else the initiator
ChosenByPrecedence(a) ==
    IF Present(getError(a)) THEN Invocation("onError", getError(a))
    ELSE IF Present(getData(a)) THEN Invocation("onSuccess", fromApi(opts[1], getData(a)))
    ELSE IF Present(getProgress(a)) THEN Invocation("onProgress", getProgress(a))
    ELSE Invocation("fetch", Undefined)

\* C3: one call of the function built by dispatchRequest invokes at most one of
\* onError, onSuccess, onProgress and initiator, the one chosen by precedence,
\* whatever the handlers do (a handler may throw); fromApi is taken to return.
C3_AtMostOneHandler ==
    (logA # NoLog /\ opts[1].fromApi # "throws") =>
        /\ Len(logA[1].invoked) <= 1
        /\ \A i \in DOMAIN logA[1].invoked : logA[1].invoked[i] = ChosenByPrecedence(act[1])

-----------------------------------------------------------------------------
(* C4 *)

\* what a router must have done when fromApi threw: onError was called with the
\* exception, onSuccess was not called, and the exception did not leave the router
FromApiFailureHandled(l) ==
    /\ l.invoked = << Invocation("onError", ExceptionOf("fromApi")) >>
    /\ \A i \in DOMAIN l.invoked : l.invoked[i].handler # "onSuccess"
    /\ l.threw # ExceptionOf("fromApi")

\* C4: when fromApi throws while a data-carrying action is routed, by
\* dispatchRequest's function or by dispatchRequestEx's, onError is invoked with
\* the thrown exception, onSuccess is not invoked in that call, and the exception
\* does not escape the router.
C4_TransformFailureIsolated ==
    \A l \in { logA, logB } :
        (l # NoLog /\ l[1].branch = "data" /\ opts[1].fromApi = "throws")
            => FromApiFailureHandled(l[1])

\* both routers have routed a data-carrying action and fromApi threw
C4_Witness ==
    /\ logA # NoLog
    /\ logB # NoLog
    /\ logA[1].branch = "data"
    /\ logB[1].branch = "data"
    /\ opts[1].fromApi = "throws"
    /\ opts[1].onError = "action"
    /\ logB[1].dispatched = << ReturnOf("action", "onError") >>

-----------------------------------------------------------------------------
(* C7 *)

\* C7: for every action, the actions with an error, data or progress field that
\* is present but falsy included, dispatchRequest's function and
\* dispatchRequestEx's select the same branch: error handler, success handler,
\* progress handler or initiator/fetch.
C7_SamePrecedence ==
    (logA # NoLog /\ logB # NoLog) =>
        /\ logA[1].branch = logB[1].branch
        /\ logA[1].invoked[1].handler = logB[1].invoked[1].handler

-----------------------------------------------------------------------------
(* C8 *)

\* the handler a call ended with: the one selected, or onError when the catch
\* block handed over to it
LastInvoked(l) == l.invoked[Len(l.invoked)].handler

\* C8: one call of the function built by dispatchRequestEx calls store.dispatch at
\* most once, with exactly the action the handler returned, and returns that
\* dispatch's result; when the handler is missing or returns no action (fetch
\* included) store.dispatch is not called, and the call returns undefined without
\* throwing.
C8_DispatchOnce ==
    logB # NoLog =>
        LET l == logB[1]
            h == LastInvoked(l)
            b == opts[1][h]
        IN  /\ Len(l.dispatched) <= 1
            /\ l.dispatched # << >> =>
                  /\ b = "action"
                  /\ l.dispatched = << ReturnOf(b, h) >>
                  /\ l.returned = storeDispatch(ReturnOf(b, h))
            /\ b = "action" => l.dispatched # << >>
            /\ b \in { "missing", "nothing" } =>
                  /\ l.dispatched = << >>
                  /\ l.returned = << >>
                  /\ l.threw = NoException

\* a call that dispatched the handler's action, the handlers for the other
\* branches being missing
C8_Witness ==
    /\ logB # NoLog
    /\ logB[1].branch = "initiate"
    /\ logB[1].dispatched = << ReturnOf("action", "fetch") >>
    /\ logB[1].returned = storeDispatch(ReturnOf("action", "fetch"))
    /\ opts[1].onSuccess = "missing"
    /\ opts[1].onError = "nothing"

-----------------------------------------------------------------------------
(* C5 *)

\* a call that did no bookkeeping: both maps are as they were, no id was minted
\* or stamped, and next was given the action as it came
NoBookkeeping ==
    /\ requests' = requests
    /\ requestIds' = requestIds
    /\ uid' = uid
    /\ cur' = arg'
    /\ fwd' = arg'

-----------------------------------------------------------------------------
(* C6 *)

-----------------------------------------------------------------------------
(* C9 *)

\* C9: for every action that trackRequests tracks (no progress event), the request
\* id is the one the action carries when it carries one and a freshly minted one
\* otherwise, and that id is both the requestId of the ledger entry under the
\* action's fingerprint and the requestId stamped on the action given to next.
C9_RequestIdResolved ==
    (cur # << >> /\ ~Truthy(getProgress(arg[1]))) =>
        LET a == arg[1]
            K == getActionKey(a)
            carried == getRequestId(a) # NoRequestId
            R == IF carried THEN getRequestId(a) ELSE DataRequestId(uid)
        IN  /\ K \in DOMAIN requests
            /\ requests[K].requestId = R
            /\ getRequestId(fwd[1]) = R
            /\ ~carried => \A k \in DOMAIN requests \ { K } : requests[k].requestId # R
            /\ ~carried => R \notin DOMAIN requestIds \/ requestIds[R] = K

\* an action that carried the id of an earlier request has been tracked, beside an
\* entry that holds another id
C9_Witness ==
    /\ cur # << >>
    /\ ~Present(getProgress(arg[1]))
    /\ getRequestId(arg[1]) = DataRequestId(1)
    /\ uid = 2
    /\ requests[getActionKey(arg[1])].requestId = DataRequestId(1)
    /\ getRequestId(fwd[1]) = DataRequestId(1)
    /\ \E k \in DOMAIN requests : requests[k].requestId = DataRequestId(2)

-----------------------------------------------------------------------------
(* C10 *)

\* the properties of a body, whatever their insertion order
Properties(body) == { body[i] : i \in DOMAIN body }

\* the properties of a body that hold a value
DefinedProperties(body) == { p \in Properties(body) : p[2] # Undefined }

\* the actions to compare with the one last processed: every body, under every
\* envelope without a request id and under the empty envelope with every id minted
Comparable ==
    { MakeAction(b, m, NoRequestId) : b \in Bodies, m \in Envelopes }
        \cup { MakeAction(b, Envelope(Undefined, Undefined, Undefined), id) :
                   b \in Bodies, id \in RequestIdsUpTo(uid) }

-----------------------------------------------------------------------------
(* C11 *)

\* C11: the derived status of an action is failure when error is present,
\* otherwise success when data is present, otherwise pending (so error and data
\* together give failure), and taking progress out of the envelope does not
\* change it.
C11_DerivedStatus ==
    cur # << >> =>
        LET a == arg[1]
        IN  /\ getRequestStatus(a) =
                  (IF Present(getError(a)) THEN "failure"
                   ELSE IF Present(getData(a)) THEN "success"
                   ELSE "pending")
            /\ getRequestStatus(a) = getRequestStatus([ a EXCEPT !.progress = Undefined ])

-----------------------------------------------------------------------------
(* C14 *)

\* C14: once the index maps a request id to a fingerprint, no call changes the
\* fingerprint that id is mapped to.
C14_IndexKeepsFirst ==
    [][ \A R \in DOMAIN requestIds :
            R \in DOMAIN requestIds' => requestIds'[R] = requestIds[R] ]_vars

-----------------------------------------------------------------------------
(* C15 *)

HasLastUpdated(meta) == "lastUpdated" \in DOMAIN meta

\* C15 as stated: in every state a pending entry has no lastUpdated and a success
\* or failure entry has one.
C15_PendingHasNoLastUpdated ==
    \A k \in DOMAIN requests :
        HasLastUpdated(requests[k]) <=> requests[k].status # "pending"

\* a call that gave the entry under k a lastUpdated, or another one
StampedBy(k) ==
    /\ HasLastUpdated(requests'[k])
    /\ (k \in DOMAIN requests /\ HasLastUpdated(requests[k]))
          => requests'[k].lastUpdated # requests[k].lastUpdated

\* C15 as amended: in every state a success or failure entry has a lastUpdated;
\* lastUpdated is set or changed only by a call that processes an action whose
\* derived status is not pending, so a pending entry has one only when an
\* earlier action that was not pending wrote the entry, and it keeps that value.
C15_LastUpdatedByTerminalOnly ==
    /\ [](\A k \in DOMAIN requests :
              requests[k].status # "pending" => HasLastUpdated(requests[k]))
    /\ [][ \A k \in DOMAIN requests' :
              StampedBy(k) =>
                  /\ CallStep
                  /\ ~isProgressEvent(arg'[1])
                  /\ getRequestStatus(arg'[1]) # "pending"
                  /\ requests'[k].lastUpdated = now ]_vars

\* a request that was answered has been issued again: its entry is pending and
\* keeps the lastUpdated of the answer
C15_Witness ==
    /\ cur # << >>
    /\ IsPlainRequest(arg[1])
    /\ requests[getActionKey(arg[1])].status = "pending"
    /\ HasLastUpdated(requests[getActionKey(arg[1])])
    /\ requests[getActionKey(arg[1])].lastUpdated < now

-----------------------------------------------------------------------------
(* C19 *)

\* C19: when the same body (fingerprint F) was issued twice without a carried id,
\* receiving data-request-1 then data-request-2, a terminal action with another
\* fingerprint that carries data-request-1 leaves the entry under F as it was:
\* requestId data-request-2, status pending.
C19_LateResponseIgnored ==
    [][ \A F \in DOMAIN requests :
            ( /\ ncalls = 2
              /\ uid = 2
              /\ MapGet(requestIds, DataRequestId(1)) = << F >>
              /\ MapGet(requestIds, DataRequestId(2)) = << F >>
              /\ Reports(requests, F, "pending", DataRequestId(2))
              /\ CallStep
              /\ IsTerminal(arg'[1])
              /\ getActionKey(arg'[1]) # F
              /\ getRequestId(arg'[1]) = DataRequestId(1) )
            => requests'[F] = requests[F] ]_vars

-----------------------------------------------------------------------------
(* C20 *)

\* C20: in the default wiring, when a call invokes onSuccess for an action,
\* getRequestMeta of that action reports success at that moment, and when it
\* invokes onError for an action that carries an error, it reports failure.
C20_LedgerAgreesWithHandler ==
    cur # << >> =>
        \A i \in DOMAIN log[1].invoked :
            LET h == log[1].invoked[i].handler
            IN  /\ h = "onSuccess" =>
                      (seen[1] # << >> /\ seen[1][1].status = "success")
                /\ (h = "onError" /\ Present(getError(arg[1]))) =>
                      (seen[1] # << >> /\ seen[1][1].status = "failure")

-----------------------------------------------------------------------------
(* C16 *)

\* C16: every call hands the action to next exactly once (one action forwarded, one
\* pass of the router), and for an action that is tracked next runs after the
\* writes: what getRequestMeta gave during next is the entry with the action's
\* derived status and resolved request id, the entry the call leaves behind.
C16_NextAfterWrites ==
    cur # << >> =>
        /\ Len(fwd) = 1
        /\ Len(log) = 1
        /\ ~isProgressEvent(arg[1]) =>
              /\ seen[1] # << >>
              /\ seen[1][1].status = getRequestStatus(arg[1])
              /\ seen[1][1].requestId = getRequestId(fwd[1])
              /\ seen[1] = getRequestMeta(fwd[1])

\* onSuccess ran for the answer to an earlier request and found the entry
\* already at success
C16_Witness ==
    /\ cur # << >>
    /\ ncalls >= 2
    /\ getData(arg[1]) = "D"
    /\ ~Present(getError(arg[1]))
    /\ ~Present(getProgress(arg[1]))
    /\ getRequestId(arg[1]) = DataRequestId(1)
    /\ log[1].invoked = << Invocation("onSuccess", "D") >>
    /\ seen[1] # << >>
    /\ seen[1][1].status = "success"
    /\ seen[1][1].requestId = DataRequestId(1)

-----------------------------------------------------------------------------
(* C17 *)

\* C17: one call changes at most two ledger entries, the one under the action's
\* fingerprint and the one under the fingerprint the index holds for the action's
\* request id, the latter only when the action's derived status is not pending;
\* every other entry is as it was, and no step other than a call changes the ledger.
C17_AtMostTwoEntries ==
    [][ IF CallStep
        THEN LET K == getActionKey(arg'[1])
                 R == getRequestId(fwd'[1])
                 origin == MapGet(requestIds, R)
             IN  /\ DOMAIN requests' \subseteq DOMAIN requests \cup { K }
                 /\ \A k \in DOMAIN requests \ { K } :
                       \/ requests'[k] = requests[k]
                       \/ (origin = << k >> /\ getRequestStatus(arg'[1]) # "pending")
        ELSE requests' = requests
      ]_vars

\* an answer has been recorded under its own fingerprint beside the pending entry
\* of another request, which is as it was
C17_Witness ==
    /\ cur # << >>
    /\ getData(arg[1]) = "D"
    /\ getRequestId(arg[1]) = NoRequestId
    /\ uid = 2
    /\ Reports(requests, getActionKey(arg[1]), "success", DataRequestId(2))
    /\ \E k \in DOMAIN requests \ { getActionKey(arg[1]) } :
          /\ Reports(requests, k, "pending", DataRequestId(1))
          /\ MapGet(requestIds, DataRequestId(1)) = << k >>

-----------------------------------------------------------------------------
(* C18 *)

\* C18: no step removes a ledger entry or an index entry: a fingerprint that has
\* an entry in requests, and a request id that has one in requestIds, has one
\* after every step.
C18_NeverRemoved ==
    [][ /\ DOMAIN requests \subseteq DOMAIN requests'
        /\ DOMAIN requestIds \subseteq DOMAIN requestIds' ]_vars

\* the answer to a request has been processed and the index still holds the
\* request's id, beside both entries
C18_Witness ==
    /\ cur # << >>
    /\ getRequestStatus(arg[1]) = "failure"
    /\ getRequestId(arg[1]) = DataRequestId(1)
    /\ DataRequestId(1) \in DOMAIN requestIds
    /\ requestIds[DataRequestId(1)] # getActionKey(arg[1])
    /\ Cardinality(DOMAIN requests) = 2
    /\ \A k \in DOMAIN requests : requests[k].status = "failure"

-----------------------------------------------------------------------------
(* C12 *)

\* C12: a parser runs validate, then filter, then transform, in that order; when
\* the payload fails validation the parser fails with a SchemaError that carries
\* the validator's error list, and neither filter nor the transformer is called.
C12_ValidateFirst ==
    parsed # << >> =>
        LET d == parsed[1].payload
            r == parsed[1].result
        IN  /\ r.steps \in { << "validator" >>, << "validator", "filter", "transformer" >> }
            /\ validatorErrors(d) # << >> =>
                  /\ r.steps = << "validator" >>
                  /\ r.threw = << SchemaError(validatorErrors(d)) >>
                  /\ r.value = << >>
            /\ validatorErrors(d) = << >> => r.steps[Len(r.steps)] = "transformer"

\* a payload that fails validation twice over has been given to a parser whose
\* transformer would throw
C12_Witness ==
    /\ parsed # << >>
    /\ parserOf = << "throwsError" >>
    /\ DOMAIN parsed[1].payload = { "name", "extra" }
    /\ parsed[1].payload["name"] = "1"
    /\ Len(parsed[1].result.threw[1].schemaErrors) = 2
    /\ parsed[1].result.steps = << "validator" >>

-----------------------------------------------------------------------------
(* C13 *)

\* C13: when the transformer throws, the parser fails with a TransformerError that
\* carries the exception thrown, the payload (as given, or as filter left it) and
\* the transformer.
C13_TransformerErrorCarriesAll ==
    (parsed # << >> /\ parsed[1].result.steps = << "validator", "filter", "transformer" >>
       /\ parserOf[1] \in { "throwsError", "throwsNull" }) =>
        LET d == parsed[1].payload
            r == parsed[1].result
        IN  /\ r.threw # << >>
            /\ r.threw[1].name = "TransformerError"
            /\ r.threw[1].inputData \in { d, filter(d) }
            /\ r.threw[1].transformer = parserOf[1]
            /\ \E f \in DOMAIN r.threw[1] \ { "inputData" } :
                  r.threw[1][f] = ThrownBy(parserOf[1])

-----------------------------------------------------------------------------
(* C21 *)

\* C21: trackRequests does not modify the action it is called with: after a call
\* the caller's action object is as it was when the call began, metadata envelope
\* and request id included, so that submitting it again starts from the same action.
C21_CallerActionUntouched ==
    cur # << >> => cur[1] = arg[1]

====
